---------------------------- MODULE Spec2Model ----------------------------
(***************************************************************************)
(* A model of the index-pool crate: IndexPool (src/src/lib.rs), its Range  *)
(* type with the intersecting-ranges comparator, and the two iterators of  *)
(* src/src/iter.rs.                                                        *)
(*                                                                         *)
(* The free list is a BTreeSet<Range>.  It is modelled as the sequence of  *)
(* its keys in tree order.  A lookup in std's B-tree scans the keys of a   *)
(* node from the left and stops at the first key the probe is not Greater  *)
(* than; a tree of at most 11 keys is a single leaf, so for the sizes      *)
(* reached here the scan over the sequence is the lookup itself.  The      *)
(* probe is always the left operand of cmp.                                *)
(*                                                                         *)
(* lib.rs as given holds new, with_initial_index, new_id, return_id,       *)
(* maximum, set_free and collapse_next.  request_id, is_free, in_use,      *)
(* clear, all_indices and all_indices_after are called by the tests but    *)
(* their bodies are not in the sources; they are modelled from the         *)
(* specification document and are marked so where they are defined.        *)
(***************************************************************************)
EXTENDS Integers, Sequences, FiniteSets

(* Bounds of the model. *)
MaxNext == 6        \* the frontier next_id never exceeds this
MaxInit == 2        \* with_initial_index(k) is explored for k in 0..MaxInit
MaxWrap == 1        \* the counter is followed this far below zero
MaxCoord == 3       \* ends of the ranges handed to cmp lie in 0..MaxCoord
MaxRound == 2       \* a round trip allocates up to this many identifiers

(* usize is modelled at the narrowest width Rust targets have. *)
UsizeBits == 16
UsizeMax == 2^UsizeBits - 1

VARIABLES
    next_id,        \* IndexPool.next_id
    free_list,      \* IndexPool.free_list, keys in tree order
    in_use,         \* the in_use counter
    used,           \* ghost: identifiers issued and not yet returned
    init_index,     \* ghost: the argument of with_initial_index
    panicked,       \* an arithmetic overflow check aborted the program
    last,           \* ghost: the last call, its result and the state before it
    it,             \* the iterator borrowing the pool, if any, and what it yielded
    low_passed,     \* ghost: an identifier below init_index was passed to
                    \* return_id or request_id
    cmp_call        \* two ranges and the result of comparing them, if computed

vars == <<next_id, free_list, in_use, used, init_index, panicked, last, it,
          low_passed, cmp_call>>

Ids == 0..(MaxNext - 1)

\* The values of the counter that are followed.
InUseRange == (0..MaxNext) \cup ((UsizeMax - MaxWrap + 1)..UsizeMax)

----------------------------------------------------------------------------
(* Range *)

Range(mn, mx) == [min |-> mn, max |-> mx]

id(v) == Range(v, v)

empty(r) == r.min > r.max

push_front(r) == [r EXCEPT !.min = @ - 1]

push_back(r) == [r EXCEPT !.max = @ + 1]

pop_front(r) == [r EXCEPT !.min = @ + 1]

min2(a, b) == IF a <= b THEN a ELSE b

max2(a, b) == IF a >= b THEN a ELSE b

merge(r, other) == Range(min2(r.min, other.min), max2(r.max, other.max))

contains(r, value) == value >= r.min /\ value <= r.max

int_cmp(a, b) == IF a < b THEN "Less" ELSE IF a = b THEN "Equal" ELSE "Greater"

cmp(r, other) ==
    IF contains(r, other.min) \/ contains(r, other.max)
    THEN "Equal"
    ELSE int_cmp(r.min, other.min)

----------------------------------------------------------------------------
(* BTreeSet<Range>, one leaf *)

\* The index of the first key the probe is not Greater than; Len + 1 if none.
find_key_index(s, key) ==
    LET hits == {i \in 1..Len(s) : cmp(key, s[i]) # "Greater"}
    IN  IF hits = {} THEN Len(s) + 1
        ELSE CHOOSE i \in hits : \A j \in hits : i <= j

found(s, key) ==
    LET i == find_key_index(s, key)
    IN  i <= Len(s) /\ cmp(key, s[i]) = "Equal"

btree_contains(s, key) == found(s, key)

\* Option<Range> as a sequence of length 0 or 1.
btree_get(s, key) ==
    IF found(s, key) THEN <<s[find_key_index(s, key)]>> ELSE <<>>

btree_remove(s, key) ==
    IF found(s, key)
    THEN LET i == find_key_index(s, key)
         IN  SubSeq(s, 1, i - 1) \o SubSeq(s, i + 1, Len(s))
    ELSE s

\* An equal key already present is kept and the new one dropped.
btree_insert(s, key) ==
    IF found(s, key)
    THEN s
    ELSE LET i == find_key_index(s, key)
         IN  SubSeq(s, 1, i - 1) \o <<key>> \o SubSeq(s, i, Len(s))

----------------------------------------------------------------------------
(* IndexPool: a pool value is [next_id, free_list] *)

Pool(n, fl) == [next_id |-> n, free_list |-> fl]

with_initial_index(index) == Pool(index, <<>>)

new == with_initial_index(0)

\* new_id handing out the far end of the lowest range.
new_id_returns_max(p) ==
    IF p.free_list # <<>>
    THEN LET first_range == Head(p.free_list)
             removed == btree_remove(p.free_list, first_range)
             reduced == pop_front(first_range)
         IN  [ret  |-> first_range.max,
              pool |-> Pool(p.next_id,
                            IF ~empty(reduced)
                            THEN btree_insert(removed, reduced)
                            ELSE removed)]
    ELSE [ret |-> p.next_id, pool |-> Pool(p.next_id + 1, p.free_list)]

new_id(p) ==
    IF p.free_list # <<>>
    THEN LET first_range == Head(p.free_list)
             removed == btree_remove(p.free_list, first_range)
             reduced == pop_front(first_range)
         IN  [ret  |-> first_range.min,
              pool |-> Pool(p.next_id,
                            IF ~empty(reduced)
                            THEN btree_insert(removed, reduced)
                            ELSE removed)]
    ELSE [ret |-> p.next_id, pool |-> Pool(p.next_id + 1, p.free_list)]

set_free(fl, v) ==
    LET range == id(v)
        range_front == IF v > 0 THEN push_front(range) ELSE range
        range_back == push_back(range)
        combine_front == btree_get(fl, range_front)
        combine_back == btree_get(fl, range_back)
    IN  IF combine_front # <<>> /\ combine_back # <<>>
        THEN LET front_range == combine_front[1]
                 back_range == combine_back[1]
                 combined == merge(merge(front_range, range), back_range)
             IN  btree_insert(
                     btree_remove(btree_remove(fl, front_range), back_range),
                     combined)
        ELSE IF combine_front # <<>>
        THEN LET front_range == combine_front[1]
                 combined == merge(front_range, range)
             IN  btree_insert(btree_remove(fl, front_range), combined)
        ELSE IF combine_back # <<>>
        THEN LET back_range == combine_back[1]
                 combined == merge(back_range, range)
             IN  btree_insert(btree_remove(fl, back_range), combined)
        ELSE btree_insert(fl, range)

\* One call of collapse_next: whether it removed a range, and the pool after.
collapse_next(p) ==
    IF p.free_list # <<>>
       /\ p.free_list[Len(p.free_list)].max + 1 = p.next_id
    THEN LET last_range == p.free_list[Len(p.free_list)]
         IN  [collapsed |-> TRUE,
              pool |-> Pool(last_range.min,
                            btree_remove(p.free_list, last_range))]
    ELSE [collapsed |-> FALSE, pool |-> p]

\* while self.collapse_next() {}: the pool after, and how many calls returned true.
RECURSIVE collapse_loop(_, _)
collapse_loop(p, n) ==
    LET c == collapse_next(p)
    IN  IF c.collapsed THEN collapse_loop(c.pool, n + 1)
        ELSE [pool |-> p, count |-> n]

\* return_id with the frontier moved before the free list is consulted.
return_id_moves_frontier_first(p, v) ==
    IF v >= p.next_id
    THEN [ok |-> FALSE, pool |-> p, collapses |-> 0]
    ELSE IF btree_contains(p.free_list, id(v))
    THEN [ok |-> FALSE, pool |-> Pool(p.next_id - 1, p.free_list),
          collapses |-> 0]
    ELSE LET q == IF v + 1 = p.next_id
                  THEN Pool(p.next_id - 1, p.free_list)
                  ELSE Pool(p.next_id, set_free(p.free_list, v))
             c == collapse_loop(q, 0)
         IN  [ok |-> TRUE, pool |-> c.pool, collapses |-> c.count]

return_id(p, v) ==
    IF v >= p.next_id \/ btree_contains(p.free_list, id(v))
    THEN [ok |-> FALSE, pool |-> p, collapses |-> 0]
    ELSE LET q == IF v + 1 = p.next_id
                  THEN Pool(p.next_id - 1, p.free_list)
                  ELSE Pool(p.next_id, set_free(p.free_list, v))
             c == collapse_loop(q, 0)
         IN  [ok |-> TRUE, pool |-> c.pool, collapses |-> c.count]

maximum(p) == p.next_id

----------------------------------------------------------------------------
(* iter.rs.  An iterator over stored ranges is the sequence still to come; *)
(* an Option is a sequence of length 0 or 1.                               *)

ranges_next(s) ==
    IF s = <<>> THEN [item |-> <<>>, rest |-> <<>>]
    ELSE [item |-> <<Head(s)>>, rest |-> Tail(s)]

Iter(fr, nr, index, end) ==
    [free_ranges |-> fr, next_range |-> nr, index |-> index, end |-> end]

IndexIter_new(free_ranges, end) ==
    LET n1 == ranges_next(free_ranges)
        n2 == ranges_next(n1.rest)
    IN  IF n1.item # <<>> /\ n1.item[1].min = 0
        THEN Iter(n2.rest, n2.item, n1.item[1].max + 1, end)
        ELSE Iter(n1.rest, n1.item, 0, end)

\* next(): the Option yielded and the iterator after the call.
IndexIter_next(i) ==
    IF i.index = i.end
    THEN [value |-> <<>>, iter |-> i]
    ELSE LET value == i.index
             index == i.index + 1
         IN  IF i.next_range # <<>> /\ index = i.next_range[1].min
             THEN LET n == ranges_next(i.free_ranges)
                  IN  [value |-> <<value>>,
                       iter |-> Iter(n.rest, n.item,
                                     i.next_range[1].max + 1, i.end)]
             ELSE [value |-> <<value>>,
                   iter |-> Iter(i.free_ranges, i.next_range, index, i.end)]

IndexAfterIter_new(free_ranges, start, end) ==
    LET n1 == ranges_next(free_ranges)
        n2 == ranges_next(n1.rest)
    IN  IF n1.item # <<>> /\ n1.item[1].min <= start
        THEN Iter(n2.rest, n2.item, n1.item[1].max + 1, end)
        ELSE Iter(n1.rest, n1.item, start, end)

IndexAfterIter_next(i) ==
    IF i.index = i.end
    THEN [value |-> <<>>, iter |-> i]
    ELSE LET value == i.index
             index == i.index + 1
         IN  IF i.next_range # <<>> /\ index = i.next_range[1].min
             THEN LET n == ranges_next(i.free_ranges)
                  IN  [value |-> <<value>>,
                       iter |-> Iter(n.rest, n.item,
                                     i.next_range[1].max + 1, i.end)]
             ELSE [value |-> <<value>>,
                   iter |-> Iter(i.free_ranges, i.next_range, index, i.end)]

----------------------------------------------------------------------------
(* The operations whose bodies are not in the sources, after the           *)
(* specification document (sections 4.2 and 4.3).                          *)

\* FreeSet.is_free: true iff some stored Range contains v.
free_set_is_free(fl, v) == \E i \in 1..Len(fl) : contains(fl[i], v)

\* IndexPool.is_free: v >= next_id or the free set holds v.
is_free(p, v) == v >= p.next_id \/ free_set_is_free(p.free_list, v)

\* FreeSet.mark_used: split the stored Range containing v around v.
mark_used(fl, v) ==
    IF ~free_set_is_free(fl, v)
    THEN [ok |-> FALSE, free_list |-> fl]
    ELSE LET i == CHOOSE i \in 1..Len(fl) :
                      /\ contains(fl[i], v)
                      /\ \A j \in 1..Len(fl) : contains(fl[j], v) => i <= j
             r == fl[i]
             without == SubSeq(fl, 1, i - 1) \o SubSeq(fl, i + 1, Len(fl))
             low == IF r.min < v
                    THEN btree_insert(without, Range(r.min, v - 1))
                    ELSE without
             both == IF v < r.max
                     THEN btree_insert(low, Range(v + 1, r.max))
                     ELSE low
         IN  [ok |-> TRUE, free_list |-> both]

\* IndexPool.request_id, cases A, B and C.
request_id(p, v) ==
    IF v = p.next_id
    THEN [ok |-> TRUE, pool |-> Pool(v + 1, p.free_list)]
    ELSE IF v > p.next_id
    THEN [ok |-> TRUE,
          pool |-> Pool(v + 1,
                        btree_insert(p.free_list, Range(p.next_id, v - 1)))]
    ELSE LET m == mark_used(p.free_list, v)
         IN  [ok |-> m.ok, pool |-> Pool(p.next_id, m.free_list)]

\* FreeSet.iter: the stored Ranges in ascending order.
free_set_iter(fl) == fl

\* FreeSet.iter_from: every stored Range whose max >= k.
iter_from(fl, k) == SelectSeq(fl, LAMBDA r : r.max >= k)

all_indices(p) == IndexIter_new(free_set_iter(p.free_list), p.next_id)

all_indices_after(p, k) ==
    IndexAfterIter_new(iter_from(p.free_list, k), k, p.next_id)

\* The counter is a usize: in_use += 1 and in_use -= 1.
in_use_inc(n) == (n + 1) % (UsizeMax + 1)

in_use_dec(n) == (n - 1) % (UsizeMax + 1)

----------------------------------------------------------------------------
(* The state machine: one pool, called by its single owner. *)

PoolNow == Pool(next_id, free_list)

Pre == [next_id |-> next_id, free_list |-> free_list,
        in_use |-> in_use, used |-> used, low_passed |-> low_passed]

Call(op, arg, res, ret, collapses) ==
    [op |-> op, arg |-> arg, res |-> res, ret |-> ret,
     collapses |-> collapses, pre |-> Pre]

NoIter == [kind |-> "none", start |-> 0, iter |-> Iter(<<>>, <<>>, 0, 0),
           out |-> <<>>, done |-> FALSE]

\* An iterator is stepped while its cursor is at most this.
IndexCap == MaxNext + 2

\* No comparison is under way.
NoCmp == [a |-> Range(0, 0), b |-> Range(0, 0), res |-> "none"]

Init ==
    /\ it = NoIter
    /\ cmp_call = NoCmp
    /\ low_passed = FALSE
    /\ init_index \in 0..MaxInit
    /\ next_id = with_initial_index(init_index).next_id
    /\ free_list = with_initial_index(init_index).free_list
    /\ in_use = 0
    /\ used = {}
    /\ panicked = FALSE
    /\ last = [op |-> "init", arg |-> init_index, res |-> "Ok", ret |-> 0,
               collapses |-> 0,
               pre |-> [next_id |-> init_index, free_list |-> <<>>,
                        in_use |-> 0, used |-> {}, low_passed |-> FALSE]]

NewId ==
    /\ ~panicked /\ it.kind = "none"
    /\ free_list = <<>> => next_id < MaxNext
    /\ \E r \in {new_id(PoolNow)} :
           /\ next_id' = r.pool.next_id
           /\ free_list' = r.pool.free_list
           /\ in_use' = in_use_inc(in_use)
           /\ used' = used \cup {r.ret}
           /\ last' = Call("new_id", 0, "Ok", r.ret, 0)
    /\ UNCHANGED <<init_index, panicked, it, low_passed, cmp_call>>

RequestId(v) ==
    /\ ~panicked /\ it.kind = "none"
    /\ \E r \in {request_id(PoolNow, v)} :
           /\ next_id' = r.pool.next_id
           /\ free_list' = r.pool.free_list
           /\ in_use' = IF r.ok THEN in_use_inc(in_use) ELSE in_use
           /\ used' = IF r.ok THEN used \cup {v} ELSE used
           /\ last' = Call("request_id", v, IF r.ok THEN "Ok" ELSE "Err", 0, 0)
    /\ low_passed' = (low_passed \/ v < init_index)
    /\ UNCHANGED <<init_index, panicked, it, cmp_call>>

\* A successful return with in_use > 0, or a refused one.
ReturnId(v) ==
    /\ ~panicked /\ it.kind = "none"
    /\ \E r \in {return_id(PoolNow, v)} :
           /\ r.ok => in_use > 0 /\ in_use_dec(in_use) \in InUseRange
           /\ next_id' = r.pool.next_id
           /\ free_list' = r.pool.free_list
           /\ in_use' = IF r.ok THEN in_use_dec(in_use) ELSE in_use
           /\ used' = IF r.ok THEN used \ {v} ELSE used
           /\ last' = Call("return_id", v, IF r.ok THEN "Ok" ELSE "Err", 0,
                           r.collapses)
    /\ low_passed' = (low_passed \/ v < init_index)
    /\ UNCHANGED <<init_index, panicked, it, cmp_call>>

\* A successful return with in_use = 0, overflow checks off: the counter wraps.
ReturnIdWrap(v) ==
    /\ ~panicked /\ it.kind = "none"
    /\ \E r \in {return_id(PoolNow, v)} :
           /\ r.ok /\ in_use = 0 /\ in_use_dec(in_use) \in InUseRange
           /\ next_id' = r.pool.next_id
           /\ free_list' = r.pool.free_list
           /\ in_use' = in_use_dec(in_use)
           /\ used' = used \ {v}
           /\ last' = Call("return_id", v, "Ok", 0, r.collapses)
    /\ low_passed' = (low_passed \/ v < init_index)
    /\ UNCHANGED <<init_index, panicked, it, cmp_call>>

\* The same with overflow checks on: the subtraction panics.
ReturnIdPanic(v) ==
    /\ ~panicked /\ it.kind = "none"
    /\ return_id(PoolNow, v).ok /\ in_use = 0
    /\ panicked' = TRUE
    /\ last' = Call("return_id", v, "Panic", 0, 0)
    /\ low_passed' = (low_passed \/ v < init_index)
    /\ UNCHANGED <<next_id, free_list, in_use, used, init_index, it, cmp_call>>

\* all_indices(): the iterator borrows the pool until it is dropped.
AllIndices ==
    /\ ~panicked /\ it.kind = "none"
    /\ it' = [kind |-> "IndexIter", start |-> 0, iter |-> all_indices(PoolNow),
              out |-> <<>>, done |-> FALSE]
    /\ last' = Call("all_indices", 0, "Ok", 0, 0)
    /\ UNCHANGED <<next_id, free_list, in_use, used, init_index, panicked,
                   low_passed, cmp_call>>

AllIndicesAfter(k) ==
    /\ ~panicked /\ it.kind = "none"
    /\ it' = [kind |-> "IndexAfterIter", start |-> k,
              iter |-> all_indices_after(PoolNow, k),
              out |-> <<>>, done |-> FALSE]
    /\ last' = Call("all_indices_after", k, "Ok", 0, 0)
    /\ UNCHANGED <<next_id, free_list, in_use, used, init_index, panicked,
                   low_passed, cmp_call>>

\* One call of next() on the live iterator.
IterNext ==
    /\ it.kind # "none" /\ ~it.done /\ it.iter.index <= IndexCap
    /\ \E n \in {IF it.kind = "IndexIter" THEN IndexIter_next(it.iter)
                  ELSE IndexAfterIter_next(it.iter)} :
           it' = [it EXCEPT !.iter = n.iter,
                            !.out = @ \o n.value,
                            !.done = (n.value = <<>>)]
    /\ UNCHANGED <<next_id, free_list, in_use, used, init_index, panicked, last,
                   low_passed, cmp_call>>

IterDrop ==
    /\ it.kind # "none"
    /\ it' = NoIter
    /\ UNCHANGED <<next_id, free_list, in_use, used, init_index, panicked, last,
                   low_passed, cmp_call>>

\* The pool alone.
Next ==
    \/ NewId
    \/ \E v \in Ids : RequestId(v)
    \/ \E v \in 0..MaxNext : ReturnId(v)
    \/ \E v \in 0..MaxNext : ReturnIdWrap(v)
    \/ \E v \in 0..MaxNext : ReturnIdPanic(v)

Spec == Init /\ [][Next]_vars

\* The pool and its iterators.
NextIter ==
    \/ Next
    \/ AllIndices
    \/ \E k \in 0..(MaxNext + 1) : AllIndicesAfter(k)
    \/ IterNext
    \/ IterDrop

SpecIter == Init /\ [][NextIter]_vars

\* Ord for Range on its own: any two ranges with min <= max.
Ranges == {r \in [min : 0..MaxCoord, max : 0..MaxCoord] : ~empty(r)}

InitCmp ==
    /\ it = NoIter
    /\ low_passed = FALSE
    /\ init_index = 0
    /\ next_id = new.next_id
    /\ free_list = new.free_list
    /\ in_use = 0
    /\ used = {}
    /\ panicked = FALSE
    /\ last = [op |-> "init", arg |-> 0, res |-> "Ok", ret |-> 0,
               collapses |-> 0,
               pre |-> [next_id |-> 0, free_list |-> <<>>,
                        in_use |-> 0, used |-> {}, low_passed |-> FALSE]]
    /\ cmp_call \in [a : Ranges, b : Ranges, res : {"none"}]

\* a.cmp(&b)
Compare ==
    /\ cmp_call.res = "none"
    /\ cmp_call' = [cmp_call EXCEPT !.res = cmp(cmp_call.a, cmp_call.b)]
    /\ UNCHANGED <<next_id, free_list, in_use, used, init_index, panicked, last,
                   it, low_passed>>

NextCmp == Compare

SpecCmp == InitCmp /\ [][NextCmp]_vars

----------------------------------------------------------------------------
(* What the claims speak of. *)

PrePool == Pool(last.pre.next_id, last.pre.free_list)

\* The identifiers covered by the stored ranges.
FreePositions(fl) == {v \in 0..MaxNext : \E i \in 1..Len(fl) : contains(fl[i], v)}

RECURSIVE TotalLength(_)
TotalLength(fl) ==
    IF fl = <<>> THEN 0
    ELSE (Head(fl).max - Head(fl).min + 1) + TotalLength(Tail(fl))

SetMax(S) == CHOOSE x \in S : \A y \in S : y <= x

SetMin(S) == CHOOSE x \in S : \A y \in S : x <= y

RECURSIVE Ascending(_)
Ascending(S) ==
    IF S = {} THEN <<>>
    ELSE <<SetMin(S)>> \o Ascending(S \ {SetMin(S)})

IsPrefix(a, b) == Len(a) <= Len(b) /\ SubSeq(b, 1, Len(a)) = a

\* C1: new_id never returns an identifier that is in use when it is called.
C1_NewIdNotInUse ==
    last.op = "new_id" => last.ret \notin last.pre.used

\* C2: return_id(v) returns Err(AlreadyReturned) exactly when v is not in
\* use: v >= next_id or v anywhere in a stored free range.
C2_ReturnErrIffNotInUse ==
    (last.op = "return_id" /\ last.res # "Panic")
        => (last.res = "Err" <=> is_free(PrePool, last.arg))

\* C3: on a pool made by new(), new_id returns the smallest natural number
\* that is not in use.
C3_NewIdSmallestFree ==
    (init_index = 0 /\ last.op = "new_id")
        => last.ret = SetMin((0..MaxNext) \ last.pre.used)

\* C4: on a pool made by new(), maximum() is the highest identifier in use
\* plus one, and 0 when none is in use.
C4_MaximumIsHighestPlusOne ==
    init_index = 0
        => maximum(PoolNow) = IF used = {} THEN 0 ELSE SetMax(used) + 1

\* C5: on a pool made by new(), the identifiers in use are those below
\* maximum() that no stored range covers, and is_free(v) is true exactly of
\* the others.
C5_InUseIsComplementOfFree ==
    init_index = 0
        => /\ used = (0..(maximum(PoolNow) - 1)) \ FreePositions(free_list)
           /\ \A v \in 0..MaxNext : is_free(PoolNow, v) <=> v \notin used

\* C6: a call that returns Err leaves next_id, the free ranges and in_use
\* as they were.
C6_ErrLeavesStateUnchanged ==
    last.res = "Err"
        => /\ next_id = last.pre.next_id
           /\ free_list = last.pre.free_list
           /\ in_use = last.pre.in_use

\* C6, witness: return_id refused an identifier below the frontier that a
\* stored range of two or more identifiers covers, with others in use.
C6_Witness ==
    /\ last.op = "return_id" /\ last.res = "Err"
    /\ last.arg < last.pre.next_id
    /\ \E i \in 1..Len(free_list) :
           contains(free_list[i], last.arg) /\ free_list[i].min < free_list[i].max
    /\ Cardinality(used) >= 2

\* C7: in_use() equals next_id minus the total length of the stored ranges.
\* Stated for the pool made by new(); with_initial_index(k), k > 0, starts
\* at in_use = 0 and next_id = k and so departs from the equation at once.
C7_InUseIsFrontierMinusFree ==
    (init_index = 0 /\ ~panicked)
        => in_use = next_id - TotalLength(free_list)

\* C8: request_id(v) returns Ok exactly when v is not in use beforehand
\* (v >= next_id or v inside a stored free range) and Err otherwise; after
\* Ok, v is in use, maximum() is max(old maximum, v + 1) and no other
\* identifier changes between free and in use.
C8_RequestIdContract ==
    last.op = "request_id"
        => /\ last.res = "Ok" <=> is_free(PrePool, last.arg)
           /\ init_index = 0 => (last.res = "Ok" <=> last.arg \notin last.pre.used)
           /\ last.res = "Ok" =>
                 /\ ~is_free(PoolNow, last.arg)
                 /\ maximum(PoolNow) = max2(maximum(PrePool), last.arg + 1)
                 /\ \A w \in (0..MaxNext) \ {last.arg} :
                        is_free(PoolNow, w) <=> is_free(PrePool, w)

\* C9: on a pool made by new(), all_indices() yields exactly the identifiers
\* in use, each once, in ascending order, and then ends.
C9_AllIndicesYieldsInUse ==
    (init_index = 0 /\ it.kind = "IndexIter")
        => /\ IsPrefix(it.out, Ascending(used))
           /\ it.done => it.out = Ascending(used)
           /\ it.out = Ascending(used) => it.iter.index = it.iter.end

\* C10: on a pool made by new(), for 0 <= k <= maximum(), all_indices_after(k)
\* yields exactly the identifiers in use that are >= k, ascending, then ends.
C10_AllIndicesAfterYieldsInUseFrom ==
    (init_index = 0 /\ it.kind = "IndexAfterIter" /\ it.start <= maximum(PoolNow))
        => LET want == Ascending({v \in used : v >= it.start})
           IN  /\ IsPrefix(it.out, want)
               /\ it.done => it.out = want
               /\ it.out = want => it.iter.index = it.iter.end

\* The first new_id on a fresh pool, and new_id while nothing below the
\* initial index has been passed to return_id or request_id.
C11_Base ==
    /\ (last.op = "new_id" /\ last.pre.next_id = init_index
          /\ last.pre.free_list = <<>> /\ last.pre.used = {})
         => last.ret = init_index
    /\ (last.op = "new_id" /\ ~last.pre.low_passed) => last.ret >= init_index

\* C11 as stated: on a pool made by with_initial_index(k) the first new_id
\* returns k, new_id returns identifiers >= k while nothing below k has been
\* passed to return_id or request_id, and once return_id(j), j < k, returned
\* Ok the next new_id returns j.  (Read only where the counter has not
\* wrapped, so that what refutes it is a run without any underflow.)
C11_InitialIndexIssue ==
    /\ C11_Base
    /\ (last.op = "return_id" /\ last.res = "Ok" /\ last.arg < init_index
          /\ in_use <= MaxNext)
         => new_id(PoolNow).ret = last.arg

\* C11, amended: ... once return_id(j), j < k, returned Ok the next new_id
\* returns j exactly when j is then the lowest free identifier.
C11_Amended ==
    /\ C11_Base
    /\ (last.op = "return_id" /\ last.res = "Ok" /\ last.arg < init_index)
         => ((new_id(PoolNow).ret = last.arg)
               <=> /\ is_free(PoolNow, last.arg)
                   /\ \A w \in 0..(last.arg - 1) : ~is_free(PoolNow, w))

\* C11, witness: return_id accepted j with 0 < j < k while identifiers are
\* in use, and j is what new_id returns next.
C11_Witness ==
    /\ last.op = "return_id" /\ last.res = "Ok"
    /\ 0 < last.arg /\ last.arg < init_index
    /\ used # {}
    /\ new_id(PoolNow).ret = last.arg

\* C12: the stored free ranges each have min <= max and are pairwise
\* disjoint and pairwise non-adjacent.
C12_RangesDisjointNonAdjacent ==
    /\ \A i \in 1..Len(free_list) : free_list[i].min <= free_list[i].max
    /\ \A i, j \in 1..Len(free_list) :
          i # j =>
             /\ ~(\E v \in 0..MaxNext :
                     contains(free_list[i], v) /\ contains(free_list[j], v))
             /\ free_list[i].min < free_list[j].min
                   => free_list[i].max + 1 < free_list[j].min

\* C13: every stored free range lies strictly below the frontier and does
\* not touch it: max + 1 < next_id.
C13_RangesBelowFrontier ==
    \A i \in 1..Len(free_list) : free_list[i].max + 1 < next_id

\* Two ranges share at least one integer.
Intersect(a, b) == \E v \in 0..MaxCoord : contains(a, v) /\ contains(b, v)

\* C14: for ranges a, b with min <= max, a.cmp(b) is Equal exactly when a
\* and b share an integer (also when one lies strictly inside the other), and
\* otherwise it is the ordering of a.min against b.min.
C14_CmpEqualIffIntersect ==
    cmp_call.res # "none" =>
       /\ (cmp_call.res = "Equal") <=> Intersect(cmp_call.a, cmp_call.b)
       /\ ~Intersect(cmp_call.a, cmp_call.b)
             => cmp_call.res = int_cmp(cmp_call.a.min, cmp_call.b.min)

\* The stored ranges as a set.
Stored(fl) == {fl[i] : i \in 1..Len(fl)}

\* What set_free(v) is to leave of the free set fl: the range ending at v - 1
\* and the range starting at v + 1 give way to the one range spanning them
\* and v.
AroundV(fl, v) ==
    LET low == {r \in Stored(fl) : r.max + 1 = v}
        high == {r \in Stored(fl) : r.min = v + 1}
        mn == IF low = {} THEN v ELSE SetMin({r.min : r \in low})
        mx == IF high = {} THEN v ELSE SetMax({r.max : r \in high})
    IN  (Stored(fl) \ (low \cup high)) \cup {Range(mn, mx)}

\* C15: a successful return_id(v) with v + 1 < next_id leaves next_id
\* unchanged and changes the free set only around v: the stored range ending
\* at v - 1 and the one starting at v + 1 are replaced by the single range
\* spanning them and v, every other stored range is unchanged.
C15_ReturnChangesOnlyAroundV ==
    (last.op = "return_id" /\ last.res = "Ok"
       /\ last.arg + 1 < last.pre.next_id)
      => /\ next_id = last.pre.next_id
         /\ Stored(free_list) = AroundV(last.pre.free_list, last.arg)
         /\ Cardinality(Stored(free_list)) = Len(free_list)

\* return_id with a single conditional check in place of the loop.
return_id_single_check(p, v) ==
    IF v >= p.next_id \/ btree_contains(p.free_list, id(v))
    THEN p
    ELSE LET q == IF v + 1 = p.next_id
                  THEN Pool(p.next_id - 1, p.free_list)
                  ELSE Pool(p.next_id, set_free(p.free_list, v))
         IN  collapse_next(q).pool

\* C16: within one return_id call collapse_next removes a range at most once,
\* and only when the returned id was next_id - 1; a single conditional check
\* in place of the loop gives the same next_id and free set.
C16_CollapseAtMostOnce ==
    /\ last.op = "return_id"
         => /\ last.collapses <= 1
            /\ last.collapses > 0 => last.arg = last.pre.next_id - 1
    /\ \A v \in 0..MaxNext :
          return_id(PoolNow, v).pool = return_id_single_check(PoolNow, v)

\* C17: the iterators are finite: for every k, also k > maximum(), the
\* iterator with start k and end next_id never yields an identifier
\* >= maximum() and reaches None, for which its cursor, which only grows and
\* is compared with the end for equality, must never lie beyond the end;
\* likewise for all_indices().
C17_IteratorsFinite ==
    it.kind # "none"
      => /\ \A i \in 1..Len(it.out) : it.out[i] < maximum(PoolNow)
         /\ it.iter.index <= it.iter.end

\* n calls of new_id: the pool after and the identifiers obtained.
RECURSIVE new_ids(_, _)
new_ids(p, n) ==
    IF n = 0 THEN [pool |-> p, ids |-> <<>>]
    ELSE LET r == new_id(p)
             t == new_ids(r.pool, n - 1)
         IN  [pool |-> t.pool, ids |-> <<r.ret>> \o t.ids]

\* return_id of each of ids, highest first: whether all returned Ok, and the
\* pool after.
RECURSIVE return_highest_first(_, _)
return_highest_first(p, ids) ==
    IF ids = <<>> THEN [ok |-> TRUE, pool |-> p]
    ELSE LET i == CHOOSE i \in 1..Len(ids) :
                      \A j \in 1..Len(ids) :
                         ids[j] < ids[i] \/ (ids[j] = ids[i] /\ i <= j)
             r == return_id(p, ids[i])
             t == return_highest_first(
                      r.pool, SubSeq(ids, 1, i - 1) \o SubSeq(ids, i + 1, Len(ids)))
         IN  [ok |-> r.ok /\ t.ok, pool |-> t.pool]

\* C18: round trip: n calls of new_id, then return_id of the n identifiers
\* obtained, highest first and all Ok, leave next_id and the stored free
\* ranges as they were before the first new_id.
C18_RoundTrip ==
    \A n \in 1..MaxRound :
       LET a == new_ids(PoolNow, n)
           r == return_highest_first(a.pool, a.ids)
       IN  r.ok => r.pool = PoolNow

\* C19: return_id returns Ok only when in_use >= 1 beforehand, so that the
\* decrement never takes the counter below 0, also for an identifier below
\* the initial index.
C19_NoInUseUnderflow ==
    (last.op = "return_id" /\ last.res \in {"Ok", "Panic"})
      => last.pre.in_use >= 1

=============================================================================
